---- MODULE Spec2Model ----
(***************************************************************************)
(* Model of the persistence layer of profile-bot (src/database.py).        *)
(*                                                                         *)
(* Every database operation is a coroutine on one asyncio event loop.  A   *)
(* coroutine runs without interruption between two awaits; every           *)
(* statement sent to PostgreSQL is an await, and the statement takes       *)
(* effect atomically in the database.  A call of an operation is a slot    *)
(* c \in Calls with a program counter pc[c].  One action of the model is   *)
(* one statement of one call together with the Python code that runs with  *)
(* it: the first action of a call holds get_pool() (which returns the open *)
(* pool without suspending) and pool.acquire(), the last action holds the  *)
(* release of the connection and the return.                               *)
(*                                                                         *)
(* A table is the set of its rows, a row is a record.  A Python value      *)
(* that may be None is a sequence of length at most one: None is << >>.    *)
(***************************************************************************)
EXTENDS Integers, Sequences, FiniteSets, TLC

\* ------------------------------------------------------------ bounds
NCalls == 2                     \* calls that can be in flight at the same time
MaxClock == 3                   \* the wall clock runs from 0 to MaxClock
MaxBumps == 3                   \* record_bump calls per user in one behaviour
MaxReminders == 3               \* set_reminder calls in one behaviour
MaxPools == 3                   \* pools created in one behaviour
MaxReports == 3                 \* create_report calls in one behaviour
MaxEvents == 3                  \* message and voice-state events in one behaviour
MaxInits == 2                   \* init_db calls in one behaviour

Calls == 1..NCalls
Times == 0..MaxClock
Users == {1, 2}                 \* user_id values
Windows == {1, 2}               \* cooldown_seconds values
Channels == {1, 2}              \* channel_id values
Messages == {1, 2}              \* message_id values
RemindTimes == {1, 2}           \* remind_at values
Statuses == {"waiting", "sent"} \* status values

None == << >>
Some(v) == << v >>

\* The tables of init_db, init_intro_bot_db and init_shugoshin_db.
AllTables ==
    {"users", "reminders", "settings", "introductions", "reports", "guild_settings",
     "report_cooldowns"}

\* The columns of CREATE TABLE introductions, lines 167-172.
CurrentColumns == << "user_id", "channel_id", "message_id", "created_at" >>

VARIABLES
    DATABASE_URL,       \* whether the environment variable is set
    _pool,              \* the global _pool: None or a pool
    pools,              \* pools[p]: the state of the p-th pool created
    clock,              \* datetime.datetime.now() and CURRENT_TIMESTAMP, in seconds
    window,             \* the cooldown_seconds the callers of check_cooldown pass
    op,                 \* op[c]: the operation call c runs
    pc,                 \* pc[c]: the await call c is suspended at; "done", "raised" at its end
    arg,                \* arg[c]: the arguments of call c
    loc,                \* loc[c]: the local variables of call c
    ret,                \* ret[c]: the value call c returns, None until it is set
    solo,               \* solo[c]: no other call was in flight while c was
    racing,             \* pairs of calls that both read before either wrote
    held,               \* the calls that hold a connection of the pool
    report_cooldowns,   \* table report_cooldowns
    tx,                 \* tx[c]: the uncommitted row written by c's transaction
    users,              \* table users
    bumpsDone,          \* bumpsDone[u]: the record_bump(u) calls that have ended
    serial,             \* serial[u]: every record_bump(u) call that has returned ran alone
    returned,           \* returned[u]: the counts the record_bump(u) calls have returned
    reminders,          \* table reminders
    reminders_id_seq,   \* the sequence behind reminders.id (SERIAL)
    introductions,      \* table introductions
    tables,             \* the tables that exist in the database
    introductions_columns, \* the columns of table introductions, in order
    introductions_indexes,\* the indexes on table introductions, in order
    reports,            \* table reports: report_id and status of each row
    reports_id_seq,     \* the sequence behind reports.report_id (SERIAL)
    intro_channel,      \* client.get_channel(INTRODUCTION_CHANNEL_ID) finds the channel
    notify_channel,     \* client.get_channel(NOTIFICATION_CHANNEL_ID) finds the channel
    history,            \* intro_channel.history(): message.author.bot of each message
    on_ready_pc,        \* where on_ready is: "none" before it runs, "returned", "propagated" at its end
    events,             \* the message and voice-state events handled
    sent,               \* the messages sent to the notification channel
    errors,             \* errors[k]: the logging.error calls of kind k
    db_attempts,        \* the db.<name> calls the handlers have made
    joins,              \* the entries into a monitored voice channel handled with a notification channel
    propagated,         \* an exception has left on_message or on_voice_state_update
    late_event,         \* an event was handled after init_intro_bot_db had failed
    settings,           \* table settings
    inits,              \* the init_db calls that have returned
    marked,             \* inits when the latest mark_scan_as_completed returned, None before
    scan_results,       \* what each is_scan_completed returned, with inits and marked at that time
    last_pass           \* last_pass[u]: the time of the latest check_cooldown(u) that returned 0, None before

poolVars == << DATABASE_URL, _pool, pools >>
callVars == << op, pc, arg, loc, ret, solo, racing, held >>
cooldownVars == << window, report_cooldowns, tx >>
bumpVars == << users, bumpsDone, serial, returned >>
reminderVars == << reminders, reminders_id_seq >>
introVars == << introductions >>
schemaVars == << tables, introductions_columns, introductions_indexes >>
reportVars == << reports, reports_id_seq >>
mainVars == << intro_channel, notify_channel, history, on_ready_pc, events, sent, errors, db_attempts, joins, propagated, late_event >>
settingsVars == << settings, inits, marked, scan_results >>
rateVars == << last_pass >>
vars == << poolVars, clock, callVars, cooldownVars, bumpVars, reminderVars, introVars,
          schemaVars,
          reportVars,
          mainVars,
          settingsVars,
          rateVars >>

\* ------------------------------------------------------------ calls
Free(c) == pc[c] \in {"idle", "done", "raised"}
InFlight(c) == ~Free(c)

\* Call c starts operation o.  A slot whose call has ended is taken again by a later
\* call, so a behaviour holds any number of calls, at most NCalls of them in flight at
\* a time.  A new call takes the lowest free slot, which only removes the symmetry
\* between slots.  solo and racing are history: solo[c] holds while no other call has
\* been in flight together with c, and racing pairs c with the calls of ds, those that
\* have read what c reads and have not written it back.
Begin(c, o, ds) ==
    /\ Free(c)
    /\ \A d \in Calls : d < c => ~Free(d)
    /\ op' = [op EXCEPT ![c] = o]
    /\ solo' = [d \in Calls |->
                  IF d = c THEN \A e \in Calls \ {c} : Free(e)
                  ELSE IF InFlight(d) THEN FALSE ELSE solo[d]]
    /\ racing' = {p \in racing : c \notin p} \cup {{c, d} : d \in ds \ {c}}

\* Call c runs operation o and is suspended at statement p.
At(c, o, p) == op[c] = o /\ pc[c] = p

\* get_pool() of a record operation: the pool is open, and is returned at once.
PoolOpen == IF _pool = None THEN FALSE ELSE pools[_pool[1]] = "open"

\* async with pool.acquire() as connection: entry and exit
Acquire(c) == held' = held \cup {c}
Release(c) == held' = held \ {c}

\* What a call keeps when it suspends at statement p with arguments a and locals l.
Suspend(c, p, a, l) ==
    /\ pc' = [pc EXCEPT ![c] = p]
    /\ arg' = [arg EXCEPT ![c] = a]
    /\ loc' = [loc EXCEPT ![c] = l]

\* What a call leaves when it ends: its frame is gone, its result r stays.
End(c, p, r) ==
    /\ Suspend(c, p, None, None)
    /\ ret' = [ret EXCEPT ![c] = r]

\* datetime.datetime.now() advances.
Tick ==
    /\ clock < MaxClock
    /\ clock' = clock + 1
    /\ UNCHANGED << poolVars, callVars, cooldownVars, bumpVars, reminderVars, introVars,
                    schemaVars,
                    reportVars,
                    mainVars,
                    settingsVars,
                    rateVars >>

\* ------------------------------------------------------------ report_cooldowns
CooldownRows(T, u) == {r \in T : r.user_id = u}

\* connection.fetchrow: the first row of the result, or None
FetchRow(rows) == IF rows = {} THEN None ELSE Some(CHOOSE r \in rows : TRUE)

\* A planted fault: ON CONFLICT (user_id) DO NOTHING.
UpsertCooldown_doNothing(T, u, t) ==
    IF CooldownRows(T, u) # {} THEN T
    ELSE T \cup {[user_id |-> u, last_report_at |-> t]}

\* INSERT INTO report_cooldowns ... ON CONFLICT (user_id) DO UPDATE SET last_report_at = $2
UpsertCooldown(T, u, t) ==
    IF CooldownRows(T, u) # {}
    THEN {IF r.user_id = u THEN [r EXCEPT !.last_report_at = t] ELSE r : r \in T}
    ELSE T \cup {[user_id |-> u, last_report_at |-> t]}

\* A planted fault: the elapsed time is returned in place of the remaining time.
CooldownRemaining_elapsed(record, now, cooldown_seconds) ==
    IF record # None /\ now - record[1].last_report_at < cooldown_seconds
    THEN Some(now - record[1].last_report_at)
    ELSE None

\* Lines 322-325 of check_cooldown: the remaining wait when the call is rejected, None
\* when the call goes on to the upsert.
CooldownRemaining(record, now, cooldown_seconds) ==
    IF record # None /\ now - record[1].last_report_at < cooldown_seconds
    THEN Some(cooldown_seconds - (now - record[1].last_report_at))
    ELSE None

\* The check_cooldown(u, w) calls that have read and hold their write back.
CooldownReaders(u, w) ==
    {d \in Calls : /\ op[d] = "check_cooldown" /\ pc[d] \in {"upsert", "commit"}
                   /\ ret[d] \in {None, Some(0)}
                   /\ arg[d] = [user_id |-> u, cooldown_seconds |-> w]}

\* Lines 315-325: get_pool(), pool.acquire(), connection.transaction() (BEGIN, at the
\* server's default isolation level, READ COMMITTED), the SELECT, which sees the rows
\* committed so far, now = datetime.now() and the test of the elapsed time.  A rejected
\* call has its return value and goes on to leave the transaction block.
check_cooldown_select(c, u, w) ==
    /\ PoolOpen /\ w = window
    /\ Begin(c, "check_cooldown", CooldownReaders(u, w))
    /\ Acquire(c)
    /\ LET record == FetchRow(CooldownRows(report_cooldowns, u))
           remaining == CooldownRemaining(record, clock, w)
       IN /\ Suspend(c, IF remaining # None THEN "commit" ELSE "upsert",
                     [user_id |-> u, cooldown_seconds |-> w], [now |-> clock])
          /\ ret' = [ret EXCEPT ![c] = remaining]
    /\ UNCHANGED << poolVars, clock, cooldownVars, bumpVars, reminderVars, introVars,
                    schemaVars,
                    reportVars,
                    mainVars,
                    settingsVars,
                    rateVars >>

\* The upsert of lines 326-329.  It waits while another open transaction holds an
\* uncommitted row of the same user (row lock, unique index), then writes its own.
check_cooldown_upsert(c) ==
    /\ At(c, "check_cooldown", "upsert")
    /\ \A d \in Calls \ {c} : tx[d] # None => tx[d][1].user_id # arg[c].user_id
    /\ tx' = [tx EXCEPT ![c] =
                Some([user_id |-> arg[c].user_id, last_report_at |-> loc[c].now])]
    /\ ret' = [ret EXCEPT ![c] = Some(0)]
    /\ pc' = [pc EXCEPT ![c] = "commit"]
    /\ UNCHANGED << poolVars, clock, op, arg, loc, solo, racing, held, window,
                    report_cooldowns, bumpVars, reminderVars, introVars,
                    schemaVars,
                    reportVars,
                    mainVars,
                    settingsVars,
                    rateVars >>

\* A planted fault: leaving the transaction block rolls back.
check_cooldown_commit_rollback(c) ==
    /\ At(c, "check_cooldown", "commit")
    /\ report_cooldowns' = report_cooldowns
    /\ tx' = [tx EXCEPT ![c] = None]
    /\ last_pass' = IF ret[c] = Some(0)
                    THEN [last_pass EXCEPT ![arg[c].user_id] = Some(loc[c].now)]
                    ELSE last_pass
    /\ End(c, "done", ret[c])
    /\ Release(c)
    /\ UNCHANGED << poolVars, clock, op, solo, racing, window, bumpVars, reminderVars,
                    introVars,
                    schemaVars,
                    reportVars,
                    mainVars,
                    settingsVars >>

\* Leaving the transaction block commits; leaving the acquire block releases the
\* connection; the call returns.
check_cooldown_commit(c) ==
    /\ At(c, "check_cooldown", "commit")
    /\ report_cooldowns' =
          IF tx[c] = None THEN report_cooldowns
          ELSE UpsertCooldown(report_cooldowns, tx[c][1].user_id, tx[c][1].last_report_at)
    /\ tx' = [tx EXCEPT ![c] = None]
    /\ last_pass' = IF ret[c] = Some(0)
                    THEN [last_pass EXCEPT ![arg[c].user_id] = Some(loc[c].now)]
                    ELSE last_pass
    /\ End(c, "done", ret[c])
    /\ Release(c)
    /\ UNCHANGED << poolVars, clock, op, solo, racing, window, bumpVars, reminderVars,
                    introVars,
                    schemaVars,
                    reportVars,
                    mainVars,
                    settingsVars >>

\* ------------------------------------------------------------ users
UserRows(T, u) == {r \in T : r.user_id = u}

\* connection.fetchval('SELECT bump_count FROM users WHERE user_id = $1'): the value of
\* the first row, or None
FetchBumpCount(T, u) ==
    IF UserRows(T, u) = {} THEN None
    ELSE Some((CHOOSE r \in UserRows(T, u) : TRUE).bump_count)

\* A planted fault: ON CONFLICT (user_id) DO NOTHING.
UpsertBump_doNothing(T, u) ==
    IF UserRows(T, u) # {} THEN T
    ELSE T \cup {[user_id |-> u, bump_count |-> 1]}

\* A planted fault: the first bump inserts the column default, 0.
UpsertBump_fromZero(T, u) ==
    IF UserRows(T, u) # {}
    THEN {IF r.user_id = u THEN [r EXCEPT !.bump_count = r.bump_count + 1] ELSE r : r \in T}
    ELSE T \cup {[user_id |-> u, bump_count |-> 0]}

\* INSERT INTO users (user_id, bump_count) VALUES ($1, 1)
\* ON CONFLICT (user_id) DO UPDATE SET bump_count = users.bump_count + 1
UpsertBump(T, u) ==
    IF UserRows(T, u) # {}
    THEN {IF r.user_id = u THEN [r EXCEPT !.bump_count = r.bump_count + 1] ELSE r : r \in T}
    ELSE T \cup {[user_id |-> u, bump_count |-> 1]}

\* Python's `count or 0`
OrZero(v) == IF v = None THEN 0 ELSE v[1]

BumpsInFlight(u) == {c \in Calls : At(c, "record_bump", "fetchval") /\ arg[c].user_id = u}

\* Lines 87-92: get_pool(), pool.acquire() and the upsert, one statement in its own
\* transaction.
record_bump_upsert(c, u) ==
    /\ PoolOpen
    /\ bumpsDone[u] + Cardinality(BumpsInFlight(u)) < MaxBumps
    /\ Begin(c, "record_bump", {})
    /\ Acquire(c)
    /\ users' = UpsertBump(users, u)
    /\ Suspend(c, "fetchval", [user_id |-> u], None)
    /\ ret' = [ret EXCEPT ![c] = None]
    /\ UNCHANGED << poolVars, clock, cooldownVars, bumpsDone, serial, returned,
                    reminderVars,
                    introVars,
                    schemaVars,
                    reportVars,
                    mainVars,
                    settingsVars,
                    rateVars >>

\* Lines 93-94: the read-back, the release of the connection and the return.
record_bump_fetchval(c) ==
    /\ At(c, "record_bump", "fetchval")
    /\ End(c, "done", FetchBumpCount(users, arg[c].user_id))
    /\ bumpsDone' = [bumpsDone EXCEPT ![arg[c].user_id] = @ + 1]
    /\ serial' = [serial EXCEPT ![arg[c].user_id] = @ /\ solo[c]]
    /\ returned' = [returned EXCEPT ![arg[c].user_id] =
                        @ \cup {FetchBumpCount(users, arg[c].user_id)}]
    /\ Release(c)
    /\ UNCHANGED << poolVars, clock, op, solo, racing, cooldownVars, users, reminderVars,
                    introVars,
                    schemaVars,
                    reportVars,
                    mainVars,
                    settingsVars,
                    rateVars >>

\* Lines 104-108: get_user_count, one SELECT, and `return count or 0`.
get_user_count(c, u) ==
    /\ PoolOpen
    /\ Begin(c, "get_user_count", {})
    /\ End(c, "done", Some(OrZero(FetchBumpCount(users, u))))
    /\ UNCHANGED << poolVars, clock, held, cooldownVars, bumpVars, reminderVars,
                    introVars,
                    schemaVars,
                    reportVars,
                    mainVars,
                    settingsVars,
                    rateVars >>

\* ------------------------------------------------------------ reminders
\* A planted fault: the DELETE removes nothing.
DeleteReminders_none(T) == T

\* DELETE FROM reminders
DeleteReminders(T) == {}

\* INSERT INTO reminders (channel_id, remind_at) VALUES ($1, $2): id and status take
\* their defaults, the next value of the sequence and 'waiting'.
InsertReminder(T, id, channel_id, remind_time) ==
    T \cup {[id |-> id, channel_id |-> channel_id, remind_at |-> remind_time,
             status |-> "waiting"]}

\* UPDATE reminders SET status = $1 WHERE channel_id = $2
UpdateReminderStatus(T, channel_id, new_status) ==
    {IF r.channel_id = channel_id THEN [r EXCEPT !.status = new_status] ELSE r : r \in T}

\* SELECT channel_id, remind_at, status
ReminderRecord(r) ==
    [channel_id |-> r.channel_id, remind_at |-> r.remind_at, status |-> r.status]

\* A planted fault: ... WHERE status = 'waiting' ORDER BY remind_at LIMIT 1.
EarliestReminder_waiting(T) ==
    LET W == {x \in T : x.status = "waiting"}
    IN IF W = {} THEN {None}
       ELSE {Some(ReminderRecord(r)) : r \in {x \in W : \A y \in W : x.remind_at <= y.remind_at}}

\* ... FROM reminders ORDER BY remind_at LIMIT 1, through connection.fetchrow: the
\* records the statement may return (rows with equal remind_at come in any order).
EarliestReminder(T) ==
    IF T = {} THEN {None}
    ELSE {Some(ReminderRecord(r)) : r \in {x \in T : \A y \in T : x.remind_at <= y.remind_at}}

SetsInFlight == {c \in Calls : At(c, "set_reminder", "insert")}

\* Lines 111-113: get_pool(), pool.acquire() and the DELETE, a statement in its own
\* transaction.
set_reminder_delete(c, channel_id, remind_time) ==
    /\ PoolOpen
    /\ reminders_id_seq + Cardinality(SetsInFlight) < MaxReminders
    /\ Begin(c, "set_reminder", {})
    /\ Acquire(c)
    /\ reminders' = DeleteReminders(reminders)
    /\ Suspend(c, "insert", [channel_id |-> channel_id, remind_time |-> remind_time], None)
    /\ ret' = [ret EXCEPT ![c] = None]
    /\ UNCHANGED << poolVars, clock, cooldownVars, bumpVars, reminders_id_seq,
                    introVars,
                    schemaVars,
                    reportVars,
                    mainVars,
                    settingsVars,
                    rateVars >>

\* Line 114: the INSERT, a second statement; then the release and the return.
set_reminder_insert(c) ==
    /\ At(c, "set_reminder", "insert")
    /\ reminders_id_seq' = reminders_id_seq + 1
    /\ reminders' = InsertReminder(reminders, reminders_id_seq + 1,
                                   arg[c].channel_id, arg[c].remind_time)
    /\ End(c, "done", None)
    /\ Release(c)
    /\ UNCHANGED << poolVars, clock, op, solo, racing, cooldownVars, bumpVars, introVars,
                    schemaVars,
                    reportVars,
                    mainVars,
                    settingsVars,
                    rateVars >>

\* Lines 116-122: get_reminder, one SELECT.
get_reminder(c) ==
    /\ PoolOpen
    /\ Begin(c, "get_reminder", {})
    /\ \E record \in EarliestReminder(reminders) : End(c, "done", record)
    /\ UNCHANGED << poolVars, clock, held, cooldownVars, bumpVars, reminderVars,
                    introVars,
                    schemaVars,
                    reportVars,
                    mainVars,
                    settingsVars,
                    rateVars >>

\* Lines 124-129: update_reminder_status, one UPDATE.
update_reminder_status(c, channel_id, new_status) ==
    /\ PoolOpen
    /\ Begin(c, "update_reminder_status", {})
    /\ reminders' = UpdateReminderStatus(reminders, channel_id, new_status)
    /\ End(c, "done", None)
    /\ UNCHANGED << poolVars, clock, held, cooldownVars, bumpVars, reminders_id_seq,
                    introVars,
                    schemaVars,
                    reportVars,
                    mainVars,
                    settingsVars,
                    rateVars >>

\* Lines 131-134: clear_reminder, one DELETE.
clear_reminder(c) ==
    /\ PoolOpen
    /\ Begin(c, "clear_reminder", {})
    /\ reminders' = DeleteReminders(reminders)
    /\ End(c, "done", None)
    /\ UNCHANGED << poolVars, clock, held, cooldownVars, bumpVars, reminders_id_seq,
                    introVars,
                    schemaVars,
                    reportVars,
                    mainVars,
                    settingsVars,
                    rateVars >>

\* ------------------------------------------------------------ introductions
IntroRows(T, u) == {r \in T : r.user_id = u}

\* A planted fault: ON CONFLICT (user_id) DO NOTHING.
UpsertIntro_doNothing(T, u, channel_id, message_id, now) ==
    IF IntroRows(T, u) # {} THEN T
    ELSE T \cup {[user_id |-> u, channel_id |-> channel_id, message_id |-> message_id,
                  created_at |-> now]}

\* INSERT INTO introductions ... VALUES ($1, $2, $3, CURRENT_TIMESTAMP)
\* ON CONFLICT (user_id) DO UPDATE SET channel_id, message_id, created_at = EXCLUDED.*
UpsertIntro(T, u, channel_id, message_id, now) ==
    IF IntroRows(T, u) # {}
    THEN {IF r.user_id = u
          THEN [r EXCEPT !.channel_id = channel_id, !.message_id = message_id,
                         !.created_at = now]
          ELSE r : r \in T}
    ELSE T \cup {[user_id |-> u, channel_id |-> channel_id, message_id |-> message_id,
                  created_at |-> now]}

\* SELECT channel_id, message_id FROM introductions WHERE user_id = $1, through fetchrow
IntroIds(T, u) ==
    IF IntroRows(T, u) = {} THEN None
    ELSE LET r == CHOOSE x \in IntroRows(T, u) : TRUE
         IN Some([channel_id |-> r.channel_id, message_id |-> r.message_id])

\* Lines 204-209: get_pool(), pool.acquire() and the SELECT that tells an update from
\* a first save, for the log line.
save_intro_fetchrow(c, u, channel_id, message_id) ==
    /\ PoolOpen
    /\ Begin(c, "save_intro", {})
    /\ Acquire(c)
    /\ Suspend(c, "execute",
               [user_id |-> u, channel_id |-> channel_id, message_id |-> message_id],
               [existing |-> IntroRows(introductions, u) # {}])
    /\ ret' = [ret EXCEPT ![c] = None]
    /\ UNCHANGED << poolVars, clock, cooldownVars, bumpVars, reminderVars,
                    introVars,
                    schemaVars,
                    reportVars,
                    mainVars,
                    settingsVars,
                    rateVars >>

\* Lines 214-226: the upsert, the log line, the release and the return.
save_intro_execute(c) ==
    /\ At(c, "save_intro", "execute")
    /\ introductions' = UpsertIntro(introductions, arg[c].user_id, arg[c].channel_id,
                                    arg[c].message_id, clock)
    /\ End(c, "done", None)
    /\ Release(c)
    /\ UNCHANGED << poolVars, clock, op, solo, racing, cooldownVars, bumpVars, reminderVars,
                    schemaVars,
                    reportVars,
                    mainVars,
                    settingsVars,
                    rateVars >>

\* Lines 228-243: get_intro_ids, one SELECT.
get_intro_ids(c, u) ==
    /\ PoolOpen
    /\ Begin(c, "get_intro_ids", {})
    /\ End(c, "done", IntroIds(introductions, u))
    /\ UNCHANGED << poolVars, clock, held, cooldownVars, bumpVars, reminderVars,
                    introVars,
                    schemaVars,
                    reportVars,
                    mainVars,
                    settingsVars,
                    rateVars >>

\* ------------------------------------------------------------ the pool
\* Line 17: _pool is None or _pool._closed
NoOpenPool == IF _pool = None THEN TRUE ELSE pools[_pool[1]] = "closed"

\* Line 38: _pool and not _pool._closed
PoolNotClosed == IF _pool = None THEN FALSE ELSE pools[_pool[1]] # "closed"

Creating == {c \in Calls : At(c, "get_pool", "create_pool")}

\* Lines 17 and 31: a pool exists and is not closed, and is returned.
get_pool_return(c) ==
    /\ ~NoOpenPool
    /\ Begin(c, "get_pool", {})
    /\ End(c, "done", _pool)
    /\ UNCHANGED << poolVars, clock, held, cooldownVars, bumpVars, reminderVars,
                    introVars,
                    schemaVars,
                    reportVars,
                    mainVars,
                    settingsVars,
                    rateVars >>

\* Lines 17-19: no open pool and no connection string: ValueError.
get_pool_raise(c) ==
    /\ NoOpenPool /\ ~DATABASE_URL
    /\ Begin(c, "get_pool", {})
    /\ End(c, "raised", None)
    /\ UNCHANGED << poolVars, clock, held, cooldownVars, bumpVars, reminderVars,
                    introVars,
                    schemaVars,
                    reportVars,
                    mainVars,
                    settingsVars,
                    rateVars >>

\* Lines 17-23: no open pool: the call suspends in await asyncpg.create_pool(...).
get_pool_create_pool(c) ==
    /\ NoOpenPool /\ DATABASE_URL
    /\ Len(pools) + Cardinality(Creating) < MaxPools
    /\ Begin(c, "get_pool", Creating)
    /\ Suspend(c, "create_pool", None, None)
    /\ ret' = [ret EXCEPT ![c] = None]
    /\ UNCHANGED << poolVars, clock, held, cooldownVars, bumpVars, reminderVars, introVars,
                    schemaVars,
                    reportVars,
                    mainVars,
                    settingsVars,
                    rateVars >>

\* Lines 23-31: the new pool is bound to the global _pool, and _pool is returned.
get_pool_assign(c) ==
    /\ At(c, "get_pool", "create_pool")
    /\ pools' = Append(pools, "open")
    /\ _pool' = Some(Len(pools) + 1)
    /\ End(c, "done", Some(Len(pools) + 1))
    /\ UNCHANGED << DATABASE_URL, clock, op, solo, racing, held, cooldownVars, bumpVars,
                    reminderVars, introVars,
                    schemaVars,
                    reportVars,
                    mainVars,
                    settingsVars,
                    rateVars >>

\* Line 38, the test fails: close_pool returns and changes nothing.
close_pool_return(c) ==
    /\ ~PoolNotClosed
    /\ Begin(c, "close_pool", {})
    /\ End(c, "done", None)
    /\ UNCHANGED << poolVars, clock, held, cooldownVars, bumpVars, reminderVars,
                    introVars,
                    schemaVars,
                    reportVars,
                    mainVars,
                    settingsVars,
                    rateVars >>

\* Lines 38-39: the call suspends in await _pool.close(); the pool is closing, and
\* its _closed is still False.
close_pool_close(c) ==
    /\ PoolNotClosed
    /\ Begin(c, "close_pool", {})
    /\ pools' = [pools EXCEPT ![_pool[1]] = "closing"]
    /\ Suspend(c, "close", None, [pool |-> _pool[1]])
    /\ ret' = [ret EXCEPT ![c] = None]
    /\ UNCHANGED << DATABASE_URL, _pool, clock, held, cooldownVars, bumpVars,
                    reminderVars, introVars,
                    schemaVars,
                    reportVars,
                    mainVars,
                    settingsVars,
                    rateVars >>

\* A planted fault: the global keeps the closed pool.
close_pool_clear_keep(c) ==
    /\ At(c, "close_pool", "close")
    /\ pools' = [pools EXCEPT ![loc[c].pool] = "closed"]
    /\ End(c, "done", None)
    /\ UNCHANGED << DATABASE_URL, _pool, clock, op, solo, racing, held, cooldownVars,
                    bumpVars, reminderVars, introVars,
                    schemaVars,
                    reportVars,
                    mainVars,
                    settingsVars,
                    rateVars >>

\* Lines 39-41: close() has ended, the pool is closed; _pool = None.
close_pool_clear(c) ==
    /\ At(c, "close_pool", "close")
    /\ pools' = [pools EXCEPT ![loc[c].pool] = "closed"]
    /\ _pool' = None
    /\ End(c, "done", None)
    /\ UNCHANGED << DATABASE_URL, clock, op, solo, racing, held, cooldownVars, bumpVars,
                    reminderVars, introVars,
                    schemaVars,
                    reportVars,
                    mainVars,
                    settingsVars,
                    rateVars >>

\* ------------------------------------------------------------ specifications
\* The kinds of logging.error calls of main.py: lines 67, 65, 79, 90 and 112.
ErrorKinds ==
    {"on_ready", "intro_channel_not_found", "on_message", "notify_channel_not_found",
     "on_voice_state_update"}

\* No event has been handled.  ic and nc tell whether the guild has the introduction
\* channel and the notification channel, h is the history of the introduction channel.
InitHandlers(ic, nc, h) ==
    /\ intro_channel = ic
    /\ notify_channel = nc
    /\ history = h
    /\ on_ready_pc = "none"
    /\ events = 0
    /\ sent = << >>
    /\ errors = [k \in ErrorKinds |-> 0]
    /\ db_attempts = 0
    /\ joins = 0
    /\ propagated = FALSE
    /\ late_event = FALSE

\* No call has been made.
InitCalls ==
    /\ clock = 0
    /\ window \in Windows
    /\ op = [c \in Calls |-> "none"]
    /\ pc = [c \in Calls |-> "idle"]
    /\ arg = [c \in Calls |-> None]
    /\ loc = [c \in Calls |-> None]
    /\ ret = [c \in Calls |-> None]
    /\ solo = [c \in Calls |-> TRUE]
    /\ racing = {}
    /\ held = {}
    /\ tx = [c \in Calls |-> None]
    /\ last_pass = [u \in Users |-> None]

\* The tables are those the initializers of this version make, and they are empty.
InitRest ==
    /\ InitCalls
    /\ report_cooldowns = {}
    /\ users = {}
    /\ bumpsDone = [u \in Users |-> 0]
    /\ serial = [u \in Users |-> TRUE]
    /\ returned = [u \in Users |-> {}]
    /\ reminders = {}
    /\ reminders_id_seq = 0
    /\ introductions = {}
    /\ reports = {}
    /\ reports_id_seq = 0
    /\ settings = {[key |-> "scan_completed", value |-> "false"]}
    /\ inits = 0
    /\ marked = None
    /\ scan_results = {}
    /\ tables = AllTables
    /\ introductions_columns = CurrentColumns
    /\ introductions_indexes = << "introductions_pkey", "idx_introductions_user_id" >>
    /\ InitHandlers(TRUE, TRUE, << >>)

\* The module has been imported: lines 7 and 9.
Init ==
    /\ DATABASE_URL \in BOOLEAN
    /\ _pool = None
    /\ pools = << >>
    /\ InitRest

\* The bot has started: the connection string is set and get_pool has made the pool.
InitServing ==
    /\ DATABASE_URL = TRUE
    /\ _pool = Some(1)
    /\ pools = << "open" >>
    /\ InitRest

CooldownNext ==
    \/ \E c \in Calls, u \in Users, w \in Windows : check_cooldown_select(c, u, w)
    \/ \E c \in Calls : check_cooldown_upsert(c)
    \/ \E c \in Calls : check_cooldown_commit(c)
    \/ Tick

\* The bot has started, and its callers pass a cooldown_seconds of two seconds.
InitCooldown == InitServing /\ window = 2

SpecCooldown == InitCooldown /\ [][CooldownNext]_vars

BumpNext ==
    \/ \E c \in Calls, u \in Users : record_bump_upsert(c, u)
    \/ \E c \in Calls : record_bump_fetchval(c)
    \/ \E c \in Calls, u \in Users : get_user_count(c, u)

SpecBump == InitServing /\ [][BumpNext]_vars

ReminderNext ==
    \/ \E c \in Calls, ch \in Channels, t \in RemindTimes : set_reminder_delete(c, ch, t)
    \/ \E c \in Calls : set_reminder_insert(c)
    \/ \E c \in Calls : get_reminder(c)
    \/ \E c \in Calls, ch \in Channels, st \in Statuses : update_reminder_status(c, ch, st)
    \/ \E c \in Calls : clear_reminder(c)

SpecReminder == InitServing /\ [][ReminderNext]_vars

IntroNext ==
    \/ \E c \in Calls, u \in Users, ch \in Channels, m \in Messages :
           save_intro_fetchrow(c, u, ch, m)
    \/ \E c \in Calls : save_intro_execute(c)
    \/ \E c \in Calls, u \in Users : get_intro_ids(c, u)

SpecIntro == InitServing /\ [][IntroNext]_vars

PoolNext ==
    \/ \E c \in Calls : get_pool_return(c)
    \/ \E c \in Calls : get_pool_raise(c)
    \/ \E c \in Calls : get_pool_create_pool(c)
    \/ \E c \in Calls : get_pool_assign(c)
    \/ \E c \in Calls : close_pool_return(c)
    \/ \E c \in Calls : close_pool_close(c)
    \/ \E c \in Calls : close_pool_clear(c)

SpecPool == Init /\ [][PoolNext]_vars

\* ------------------------------------------------------------ check_cooldown: properties
\* C1: of two check_cooldown(u, w) calls for the same user and the same window that are
\* in flight together, the second having read before the first committed, at most one
\* returns 0.  The pairs of racing are such calls; the statement is that no pair of
\* them ends with 0 returned to both.
C1_AtMostOneConcurrentPass ==
    \A c \in Calls : \A d \in Calls \ {c} :
        ( /\ {c, d} \in racing
          /\ op[c] = "check_cooldown" /\ pc[c] = "done"
          /\ op[d] = "check_cooldown" /\ pc[d] = "done" )
        => ~(ret[c] = Some(0) /\ ret[d] = Some(0))

\* C2: a check_cooldown(u, w) that reads a timestamp t of u with now - t < w has the
\* positive return value w - (now - t), writes nothing in its transaction, and neither
\* its SELECT nor its commit changes report_cooldowns.
C2_RejectedChangesNothing ==
    [][\A c \in Calls :
          /\ ( Free(c) /\ op'[c] = "check_cooldown" /\ pc'[c] \in {"upsert", "commit"} )
             => \A r \in CooldownRows(report_cooldowns, arg'[c].user_id) :
                   clock - r.last_report_at < arg'[c].cooldown_seconds
                   => /\ ret'[c] = Some(arg'[c].cooldown_seconds - (clock - r.last_report_at))
                      /\ ret'[c][1] > 0
                      /\ pc'[c] = "commit"
                      /\ tx'[c] = None
                      /\ report_cooldowns' = report_cooldowns
          /\ ( At(c, "check_cooldown", "commit") /\ pc'[c] = "done" /\ ret[c] # Some(0) )
             => /\ ret'[c] = ret[c]
                /\ CooldownRows(report_cooldowns', arg[c].user_id)
                     = CooldownRows(report_cooldowns, arg[c].user_id)
                /\ report_cooldowns' = report_cooldowns
      ]_vars

\* C2, its case: a call has returned a positive wait and the row it read is in place.
C2_Witness ==
    \E c \in Calls :
        /\ op[c] = "check_cooldown" /\ pc[c] = "done"
        /\ ret[c] # None /\ ret[c][1] > 0
        /\ report_cooldowns # {}

\* C3: a check_cooldown(u, w) that reads no timestamp of u, or one with now - t >= w,
\* goes on to the upsert with its own current time, returns 0, and its commit leaves
\* exactly one row of u, holding that time, and every other user's rows as they were.
C3_PassStoresNow ==
    [][\A c \in Calls :
          /\ ( Free(c) /\ op'[c] = "check_cooldown" /\ pc'[c] \in {"upsert", "commit"} )
             => ( (\A r \in CooldownRows(report_cooldowns, arg'[c].user_id) :
                      clock - r.last_report_at >= arg'[c].cooldown_seconds)
                  => /\ pc'[c] = "upsert"
                     /\ loc'[c].now = clock
                     /\ report_cooldowns' = report_cooldowns )
          /\ ( At(c, "check_cooldown", "upsert") /\ pc'[c] = "commit" )
             => /\ ret'[c] = Some(0)
                /\ tx'[c] = Some([user_id |-> arg[c].user_id,
                                  last_report_at |-> loc[c].now])
          /\ ( At(c, "check_cooldown", "commit") /\ pc'[c] = "done" /\ ret[c] = Some(0) )
             => /\ ret'[c] = Some(0)
                /\ CooldownRows(report_cooldowns', arg[c].user_id)
                     = {[user_id |-> arg[c].user_id, last_report_at |-> loc[c].now]}
                /\ \A v \in Users \ {arg[c].user_id} :
                      CooldownRows(report_cooldowns', v) = CooldownRows(report_cooldowns, v)
      ]_vars

\* C3, its case: a call that read a timestamp exactly one window old (the boundary)
\* has passed, has written its own time and has 0 to return.
C3_Witness ==
    \E c \in Calls :
        /\ At(c, "check_cooldown", "commit") /\ ret[c] = Some(0)
        /\ tx[c] = Some([user_id |-> arg[c].user_id, last_report_at |-> loc[c].now])
        /\ \E r \in CooldownRows(report_cooldowns, arg[c].user_id) :
              loc[c].now - r.last_report_at = arg[c].cooldown_seconds

\* ------------------------------------------------------------ record_bump: properties
\* C4: once every record_bump(u) call made so far has completed, in whatever way the
\* calls interleaved, users holds exactly one row of u and its bump_count is the number
\* of those calls.
C4_NoLostIncrement ==
    \A u \in Users :
        (BumpsInFlight(u) = {} /\ bumpsDone[u] > 0)
        => UserRows(users, u) = {[user_id |-> u, bump_count |-> bumpsDone[u]]}

\* C4, its case: MaxBumps calls for one user have completed, and some of them
\* overlapped.
C4_Witness ==
    \E u \in Users :
        /\ bumpsDone[u] = MaxBumps /\ ~serial[u]
        /\ BumpsInFlight(u) = {}
        /\ \E r \in users : r.user_id = u /\ r.bump_count = MaxBumps

\* C5: while the record_bump(u) calls come one after another, the k-th of them returns
\* k (so the returned values grow by one each time), a get_user_count(u) that follows
\* returns the number of calls made, and no record_bump(u) step changes the row of
\* another user.
C5_KthCallReturnsK ==
    [][\A c \in Calls :
          /\ ( At(c, "record_bump", "fetchval") /\ pc'[c] = "done"
               /\ solo[c] /\ serial[arg[c].user_id] )
             => ret'[c] = Some(bumpsDone[arg[c].user_id] + 1)
          /\ \A u \in Users :
                ( get_user_count(c, u) /\ solo'[c] /\ serial[u] )
                => ret'[c] = Some(bumpsDone[u])
          /\ ( op'[c] = "record_bump" /\ pc'[c] # pc[c] )
             => \A v \in Users :
                   (arg[c] # None => v # arg[c].user_id) /\ (arg'[c] # None => v # arg'[c].user_id)
                   => UserRows(users', v) = UserRows(users, v)
      ]_vars

\* C5, its case: MaxBumps calls for one user have been made one after another, fewer
\* for the other user, and a get_user_count has returned MaxBumps.
C5_Witness ==
    \E c \in Calls, u \in Users :
        /\ op[c] = "get_user_count" /\ pc[c] = "done" /\ solo[c]
        /\ ret[c] = Some(MaxBumps)
        /\ bumpsDone[u] = MaxBumps /\ serial[u]
        /\ \A v \in Users \ {u} : bumpsDone[v] > 0 /\ bumpsDone[v] < MaxBumps

\* ------------------------------------------------------------ reminders: properties
\* C6: whenever no reminder operation is in flight, reminders holds at most one row.
C6_AtMostOneReminder ==
    (\A c \in Calls : Free(c)) => Cardinality(reminders) <= 1

\* C7: a set_reminder(channel, time) that ran with no other call in flight leaves
\* exactly one row, (channel, time, 'waiting'), whatever the table held before, and a
\* get_reminder that runs alone on a table of one row returns that row.
C7_SetThenGet ==
    [][\A c \in Calls :
          /\ ( At(c, "set_reminder", "insert") /\ pc'[c] = "done" /\ solo[c] )
             => /\ Cardinality(reminders') = 1
                /\ \A r \in reminders' :
                      /\ r.channel_id = arg[c].channel_id
                      /\ r.remind_at = arg[c].remind_time
                      /\ r.status = "waiting"
          /\ ( get_reminder(c) /\ solo'[c] )
             => \A r \in reminders :
                   reminders = {r}
                   => ret'[c] = Some([channel_id |-> r.channel_id,
                                      remind_at |-> r.remind_at, status |-> r.status])
      ]_vars

\* C7, its case: after earlier reminders, a set_reminder has run alone for a time
\* earlier than the latest one, and a get_reminder that ran alone has returned its row.
C7_Witness ==
    \E c \in Calls :
        /\ op[c] = "get_reminder" /\ pc[c] = "done" /\ solo[c]
        /\ \E r \in reminders :
              /\ reminders = {r}
              /\ r.id = MaxReminders /\ r.remind_at = 1 /\ r.status = "waiting"
              /\ ret[c] = Some([channel_id |-> r.channel_id, remind_at |-> 1,
                                status |-> "waiting"])

\* ------------------------------------------------------------ introductions: properties
\* C8: introductions holds at most one row per user; only the upsert of a save_intro
\* changes the table, and after it the row of its user carries its channel id and
\* message id while the rows of the other users are as they were, however the calls
\* interleave; get_intro_ids(u) returns the pair of the row of u, None without a row.
C8_LastSaveWins ==
    [][/\ \A u \in Users : Cardinality(IntroRows(introductions', u)) <= 1
       /\ (\A c \in Calls : ~(At(c, "save_intro", "execute") /\ pc'[c] = "done"))
          => introductions' = introductions
       /\ \A c \in Calls :
             /\ ( At(c, "save_intro", "execute") /\ pc'[c] = "done" )
                => /\ \A r \in IntroRows(introductions', arg[c].user_id) :
                         /\ r.channel_id = arg[c].channel_id
                         /\ r.message_id = arg[c].message_id
                   /\ IntroRows(introductions', arg[c].user_id) # {}
                   /\ \A v \in Users \ {arg[c].user_id} :
                         IntroRows(introductions', v) = IntroRows(introductions, v)
             /\ \A u \in Users :
                   get_intro_ids(c, u)
                   => /\ IntroRows(introductions, u) = {} => ret'[c] = None
                      /\ \A r \in IntroRows(introductions, u) :
                            ret'[c] = Some([channel_id |-> r.channel_id,
                                            message_id |-> r.message_id])
      ]_vars

\* C8, its case: two save_intro calls for the same user overlapped; one has completed,
\* the other saw a row in its SELECT and is about to replace a pair that is not its own.
C8_Witness ==
    \E c \in Calls : \E d \in Calls \ {c} :
        /\ op[c] = "save_intro" /\ pc[c] = "done" /\ ~solo[c]
        /\ At(d, "save_intro", "execute") /\ loc[d].existing
        /\ \E r \in IntroRows(introductions, arg[d].user_id) :
              r.channel_id # arg[d].channel_id /\ r.message_id # arg[d].message_id

\* ------------------------------------------------------------ the pool: properties
\* C9: get_pool calls that start while no open pool exists and overlap in create_pool
\* receive the same pool.  The pairs of racing are such calls.
C9_OnePoolForAll ==
    \A c \in Calls : \A d \in Calls \ {c} :
        ( /\ {c, d} \in racing
          /\ op[c] = "get_pool" /\ pc[c] = "done"
          /\ op[d] = "get_pool" /\ pc[d] = "done" )
        => ret[c] = ret[d]

\* C10: a close_pool that finds no pool, or a closed one, returns at once, changes
\* nothing and raises nothing; a close_pool that finds an open pool goes on to close
\* it, and when it ran alone it leaves that pool closed and _pool None; a get_pool that
\* finds no open pool goes on to create one, and when it ran alone it returns a pool
\* that did not exist before, open, and bound to _pool.
C10_CloseThenFresh ==
    [][\A c \in Calls :
          /\ ( (close_pool_return(c) \/ close_pool_close(c)) /\ NoOpenPool )
             => /\ pc'[c] = "done"
                /\ _pool' = _pool /\ pools' = pools
          /\ ( (close_pool_return(c) \/ close_pool_close(c)) /\ PoolOpen )
             => /\ pc'[c] = "close"
                /\ loc'[c].pool = _pool[1]
                /\ pools'[_pool[1]] # "open"
          /\ ( At(c, "close_pool", "close") /\ pc'[c] = "done" /\ solo[c] )
             => /\ pools'[loc[c].pool] = "closed"
                /\ \A p \in DOMAIN pools : p # loc[c].pool => pools'[p] = pools[p]
                /\ _pool' = None
          /\ ( (get_pool_return(c) \/ get_pool_raise(c) \/ get_pool_create_pool(c))
               /\ NoOpenPool /\ DATABASE_URL )
             => pc'[c] = "create_pool"
          /\ ( At(c, "get_pool", "create_pool") /\ pc'[c] = "done" /\ solo[c] )
             => /\ ret'[c] # None
                /\ ret'[c][1] \notin DOMAIN pools
                /\ pools'[ret'[c][1]] = "open"
                /\ _pool' = ret'[c]
      ]_vars

\* C10, its case: a first pool was made and closed, and a get_pool that ran alone
\* afterwards has returned a second pool, open, and not the closed one.
C10_Witness ==
    \E c \in Calls :
        /\ op[c] = "get_pool" /\ pc[c] = "done" /\ solo[c]
        /\ ret[c] = Some(2) /\ _pool = Some(2)
        /\ pools = << "closed", "open" >>

\* ------------------------------------------------------------ no connection string
\* The coroutines of the module that begin with `pool = await get_pool()`.
RecordOps ==
    {"init_db", "is_scan_completed", "mark_scan_as_completed", "record_bump",
     "get_top_users", "get_user_count", "set_reminder", "get_reminder",
     "update_reminder_status", "clear_reminder", "get_total_bumps",
     "init_intro_bot_db", "save_intro", "get_intro_ids", "get_intro_count",
     "list_recent_intros", "init_shugoshin_db", "setup_guild", "get_guild_settings",
     "check_cooldown", "create_report", "update_report_message_id",
     "update_report_status", "get_report", "list_reports", "get_report_stats"}

\* A planted fault: the operation goes on to pool.acquire() after get_pool has failed.
record_op_get_pool_raise_acquire(c, o) ==
    /\ NoOpenPool /\ ~DATABASE_URL
    /\ Begin(c, o, {})
    /\ Acquire(c)
    /\ End(c, "raised", None)
    /\ UNCHANGED << poolVars, clock, cooldownVars, bumpVars, reminderVars, introVars,
                    schemaVars,
                    reportVars,
                    mainVars,
                    settingsVars,
                    rateVars >>

\* The first line of operation o, `pool = await get_pool()`, when get_pool raises
\* ValueError (lines 17-19): the error leaves the operation before pool.acquire().
record_op_get_pool_raise(c, o) ==
    /\ NoOpenPool /\ ~DATABASE_URL
    /\ Begin(c, o, {})
    /\ End(c, "raised", None)
    /\ UNCHANGED << poolVars, clock, held, cooldownVars, bumpVars, reminderVars,
                    introVars,
                    schemaVars,
                    reportVars,
                    mainVars,
                    settingsVars,
                    rateVars >>

\* get_pool, close_pool and the operations, from the import of the module on; with a
\* connection string the pool is made and used, without one every operation fails.
ConfigNext ==
    \/ PoolNext
    \/ \E c \in Calls, o \in RecordOps : record_op_get_pool_raise(c, o)
    \/ \E c \in Calls, u \in Users : get_user_count(c, u)

SpecConfig == Init /\ [][ConfigNext]_vars

\* C11: while the connection string is unset and no open pool exists, no step makes a
\* pool, binds _pool, checks a connection out or changes a table, and the call that
\* begins in the step ends in it with the error raised, unless it is a close_pool,
\* which returns.
C11_UnsetUrlRaises ==
    [][(NoOpenPool /\ ~DATABASE_URL)
       => /\ pools' = pools /\ _pool' = _pool
          /\ held' = held
          /\ << cooldownVars, bumpVars, reminderVars, introVars >>'
               = << cooldownVars, bumpVars, reminderVars, introVars >>
          /\ \A c \in Calls :
                (Free(c) /\ \A d \in Calls : d < c => ~Free(d))
                => \/ op'[c] = "get_pool" /\ pc'[c] = "raised"
                   \/ op'[c] \in RecordOps /\ pc'[c] = "raised"
                   \/ op'[c] = "close_pool" /\ pc'[c] = "done"
      ]_vars

\* C11, its case: without a connection string, a record_bump has raised and there is
\* still no pool.
C11_Witness ==
    /\ ~DATABASE_URL /\ _pool = None /\ pools = << >>
    /\ \E c \in Calls : op[c] = "record_bump" /\ pc[c] = "raised"

\* ------------------------------------------------------------ init_intro_bot_db
Range(s) == {s[i] : i \in DOMAIN s}
Count(s, x) == Cardinality({i \in DOMAIN s : s[i] = x})

\* The layout of an older version: no created_at, and the index of the primary key only.
OldColumns == << "user_id", "channel_id", "message_id" >>

\* A planted fault: the catalog query finds no column.
ColumnExists_never(T, columns) == FALSE

\* SELECT EXISTS (SELECT 1 FROM information_schema.columns
\*                WHERE table_name = 'introductions' AND column_name = 'created_at')
ColumnExists(T, columns) == "introductions" \in T /\ "created_at" \in Range(columns)

\* CREATE INDEX IF NOT EXISTS idx_introductions_user_id ON introductions(user_id)
CreateIndexIfNotExists(indexes) ==
    IF "idx_introductions_user_id" \in Range(indexes) THEN indexes
    ELSE Append(indexes, "idx_introductions_user_id")

\* ALTER TABLE introductions ADD COLUMN created_at ... DEFAULT CURRENT_TIMESTAMP: the
\* rows of the table take the default, the time of the statement.
AddCreatedAt(T, now) ==
    {[user_id |-> r.user_id, channel_id |-> r.channel_id, message_id |-> r.message_id,
      created_at |-> now] : r \in T}

InitsCreating == {c \in Calls : At(c, "init_intro_bot_db", "create_pool")}

\* Line 148 at startup, no pool yet: get_pool suspends in asyncpg.create_pool.
init_intro_bot_db_get_pool(c) ==
    /\ NoOpenPool /\ DATABASE_URL
    /\ Len(pools) + Cardinality(InitsCreating) < MaxPools
    /\ Begin(c, "init_intro_bot_db", {})
    /\ Suspend(c, "create_pool", None, None)
    /\ ret' = [ret EXCEPT ![c] = None]
    /\ UNCHANGED << poolVars, clock, held, cooldownVars, bumpVars, reminderVars,
                    introVars, schemaVars,
                    reportVars,
                    mainVars,
                    settingsVars,
                    rateVars >>

\* Lines 23-31 and 148-149: the pool is made, bound to _pool and returned to the
\* initializer, which goes on to pool.acquire().
init_intro_bot_db_acquire(c) ==
    /\ At(c, "init_intro_bot_db", "create_pool")
    /\ pools' = Append(pools, "open")
    /\ _pool' = Some(Len(pools) + 1)
    /\ Acquire(c)
    /\ pc' = [pc EXCEPT ![c] = "create_table"]
    /\ UNCHANGED << DATABASE_URL, clock, op, arg, loc, ret, solo, racing, cooldownVars,
                    bumpVars, reminderVars, introVars, schemaVars,
                    reportVars,
                    mainVars,
                    settingsVars,
                    rateVars >>

\* CREATE TABLE IF NOT EXISTS introductions (...), lines 166-173: a new table has the
\* four columns and the index of its primary key.
CreateTableIfNotExists ==
    IF "introductions" \in tables
    THEN UNCHANGED schemaVars
    ELSE /\ tables' = tables \cup {"introductions"}
         /\ introductions_columns' = CurrentColumns
         /\ introductions_indexes' = << "introductions_pkey" >>

\* Lines 148-173 with an open pool: get_pool returns it at once; pool.acquire() and
\* the CREATE TABLE.
init_intro_bot_db_begin(c) ==
    /\ PoolOpen
    /\ Begin(c, "init_intro_bot_db", {})
    /\ Acquire(c)
    /\ CreateTableIfNotExists
    /\ Suspend(c, "fetchval", None, None)
    /\ ret' = [ret EXCEPT ![c] = None]
    /\ UNCHANGED << poolVars, clock, cooldownVars, bumpVars, reminderVars, introVars,
                    reportVars,
                    mainVars,
                    settingsVars,
                    rateVars >>

\* Lines 166-173 after the pool was made: the CREATE TABLE.
init_intro_bot_db_create_table(c) ==
    /\ At(c, "init_intro_bot_db", "create_table")
    /\ CreateTableIfNotExists
    /\ pc' = [pc EXCEPT ![c] = "fetchval"]
    /\ UNCHANGED << poolVars, clock, op, arg, loc, ret, solo, racing, held, cooldownVars,
                    bumpVars, reminderVars, introVars,
                    reportVars,
                    mainVars,
                    settingsVars,
                    rateVars >>

\* Lines 176-186: the catalog query and the test of its result.
init_intro_bot_db_fetchval(c) ==
    /\ At(c, "init_intro_bot_db", "fetchval")
    /\ LET column_exists == ColumnExists(tables, introductions_columns)
       IN /\ pc' = [pc EXCEPT ![c] = IF column_exists THEN "create_index" ELSE "alter"]
          /\ loc' = [loc EXCEPT ![c] = [column_exists |-> column_exists]]
    /\ UNCHANGED << poolVars, clock, op, arg, ret, solo, racing, held, cooldownVars,
                    bumpVars, reminderVars, introVars, schemaVars,
                    reportVars,
                    mainVars,
                    settingsVars,
                    rateVars >>

\* Lines 187-191: ALTER TABLE ... ADD COLUMN created_at.  The statement fails when the
\* column exists (DuplicateColumnError); the error leaves the acquire block, which
\* releases the connection, and the initializer.
init_intro_bot_db_alter(c) ==
    /\ At(c, "init_intro_bot_db", "alter")
    /\ IF "created_at" \in Range(introductions_columns)
       THEN /\ End(c, "raised", None)
            /\ Release(c)
            /\ UNCHANGED << introVars, schemaVars >>
       ELSE /\ introductions_columns' = Append(introductions_columns, "created_at")
            /\ introductions' = AddCreatedAt(introductions, clock)
            /\ pc' = [pc EXCEPT ![c] = "create_index"]
            /\ UNCHANGED << arg, loc, ret, held, tables, introductions_indexes >>
    /\ UNCHANGED << poolVars, clock, op, solo, racing, cooldownVars, bumpVars,
                    reminderVars,
                    reportVars,
                    mainVars,
                    settingsVars,
                    rateVars >>

\* Lines 194-198: CREATE INDEX IF NOT EXISTS, the release and the return.
init_intro_bot_db_create_index(c) ==
    /\ At(c, "init_intro_bot_db", "create_index")
    /\ introductions_indexes' = CreateIndexIfNotExists(introductions_indexes)
    /\ End(c, "done", None)
    /\ Release(c)
    /\ UNCHANGED << poolVars, clock, op, solo, racing, cooldownVars, bumpVars,
                    reminderVars, introVars, tables, introductions_columns,
                    reportVars,
                    mainVars,
                    settingsVars,
                    rateVars >>

\* The rows an older deployment may hold.
OldRows ==
    {[user_id |-> 1, channel_id |-> 1, message_id |-> 1],
     [user_id |-> 2, channel_id |-> 1, message_id |-> 2]}

\* The process starts on a database that has no table introductions, the table of an
\* older version, or the table of this version; no pool has been made.
StartupDatabase ==
    /\ DATABASE_URL = TRUE
    /\ _pool = None
    /\ pools = << >>
    /\ InitCalls /\ window = 1
    /\ report_cooldowns = {}
    /\ users = {}
    /\ bumpsDone = [u \in Users |-> 0]
    /\ serial = [u \in Users |-> TRUE]
    /\ returned = [u \in Users |-> {}]
    /\ reminders = {}
    /\ reminders_id_seq = 0
    /\ reports = {}
    /\ reports_id_seq = 0
    /\ settings = {[key |-> "scan_completed", value |-> "false"]}
    /\ inits = 0
    /\ marked = None
    /\ scan_results = {}
    /\ \/ /\ tables = AllTables \ {"introductions"}
          /\ introductions_columns = << >>
          /\ introductions_indexes = << >>
          /\ introductions = {}
       \/ /\ tables = AllTables
          /\ introductions_columns = OldColumns
          /\ introductions_indexes = << "introductions_pkey" >>
          /\ introductions \in SUBSET OldRows
       \/ /\ tables = AllTables
          /\ introductions_columns = CurrentColumns
          /\ introductions_indexes = << "introductions_pkey", "idx_introductions_user_id" >>
          /\ \E rows \in SUBSET OldRows : introductions = AddCreatedAt(rows, 0)

\* The startup of a process in a guild that has both channels.
InitStartup == StartupDatabase /\ InitHandlers(TRUE, TRUE, << >>)

SchemaNext ==
    \/ \E c \in Calls : init_intro_bot_db_get_pool(c)
    \/ \E c \in Calls : init_intro_bot_db_acquire(c)
    \/ \E c \in Calls : init_intro_bot_db_begin(c)
    \/ \E c \in Calls : init_intro_bot_db_create_table(c)
    \/ \E c \in Calls : init_intro_bot_db_fetchval(c)
    \/ \E c \in Calls : init_intro_bot_db_alter(c)
    \/ \E c \in Calls : init_intro_bot_db_create_index(c)
    \/ Tick

SpecSchema == InitStartup /\ [][SchemaNext]_vars

\* C12: an init_intro_bot_db that runs alone raises no error; a run that reaches its
\* end leaves the table present with created_at once among its columns and
\* idx_introductions_user_id once among its indexes; and once the table has that
\* column and that index, no step of a run changes the schema or a stored row.
C12_InitIdempotent ==
    [][/\ \A c \in Calls :
             /\ (op'[c] = "init_intro_bot_db" /\ pc'[c] = "raised") => ~solo'[c]
             /\ (At(c, "init_intro_bot_db", "create_index") /\ pc'[c] = "done")
                => /\ "introductions" \in tables'
                   /\ Count(introductions_columns', "created_at") = 1
                   /\ Count(introductions_indexes', "idx_introductions_user_id") = 1
                   /\ Count(introductions_indexes', "introductions_pkey") = 1
       /\ ( /\ "introductions" \in tables
            /\ "created_at" \in Range(introductions_columns)
            /\ "idx_introductions_user_id" \in Range(introductions_indexes) )
          => /\ tables' = tables
             /\ introductions_columns' = introductions_columns
             /\ introductions_indexes' = introductions_indexes
             /\ introductions' = introductions
      ]_vars

\* C12, its case: from the table of an older version with rows, a run alone has
\* added created_at, after the clock moved, and the index, and a later run alone has
\* ended on that schema.
C12_Witness ==
    \E c \in Calls :
        /\ op[c] = "init_intro_bot_db" /\ pc[c] = "done" /\ solo[c]
        /\ introductions_columns = CurrentColumns
        /\ introductions_indexes = << "introductions_pkey", "idx_introductions_user_id" >>
        /\ \E r \in introductions : r.created_at > 0
        /\ clock > (CHOOSE r \in introductions : TRUE).created_at

\* ------------------------------------------------------------ reports
\* status values: the column default of line 277 (written in Japanese there,
\* "unhandled") and two that a moderator sets
ReportStatuses == {"unhandled", "in_progress", "resolved"}

\* A planted fault: one result row for every status, also those no report carries.
GroupByStatus_everyStatus(T) ==
    {[status |-> s, count |-> Cardinality({r \in T : r.status = s})] : s \in ReportStatuses}

\* SELECT status, COUNT(*) as count FROM reports GROUP BY status: one result row for
\* each status some report carries.
GroupByStatus(T) ==
    {[status |-> s, count |-> Cardinality({r \in T : r.status = s})] :
        s \in {r.status : r \in T}}

\* {row['status']: row['count'] for row in stats}
StatsDict(stats) ==
    [s \in {row.status : row \in stats} |-> (CHOOSE row \in stats : row.status = s).count]

\* Lines 332-340: create_report, one INSERT ... RETURNING report_id; status takes its
\* default.
create_report(c) ==
    /\ PoolOpen
    /\ reports_id_seq < MaxReports
    /\ Begin(c, "create_report", {})
    /\ reports_id_seq' = reports_id_seq + 1
    /\ reports' = reports \cup {[report_id |-> reports_id_seq + 1, status |-> "unhandled"]}
    /\ End(c, "done", Some(reports_id_seq + 1))
    /\ UNCHANGED << poolVars, clock, held, cooldownVars, bumpVars, reminderVars,
                    introVars, schemaVars,
                    mainVars,
                    settingsVars,
                    rateVars >>

\* A planted fault: the UPDATE without its WHERE clause.
update_report_status_all(c, report_id, new_status) ==
    /\ PoolOpen
    /\ Begin(c, "update_report_status", {})
    /\ reports' = {[r EXCEPT !.status = new_status] : r \in reports}
    /\ End(c, "done", None)
    /\ UNCHANGED << poolVars, clock, held, cooldownVars, bumpVars, reminderVars,
                    introVars, schemaVars, reports_id_seq,
                    mainVars,
                    settingsVars,
                    rateVars >>

\* Lines 350-356: update_report_status, one UPDATE.
update_report_status(c, report_id, new_status) ==
    /\ PoolOpen
    /\ Begin(c, "update_report_status", {})
    /\ reports' = {IF r.report_id = report_id THEN [r EXCEPT !.status = new_status] ELSE r :
                      r \in reports}
    /\ End(c, "done", None)
    /\ UNCHANGED << poolVars, clock, held, cooldownVars, bumpVars, reminderVars,
                    introVars, schemaVars, reports_id_seq,
                    mainVars,
                    settingsVars,
                    rateVars >>

\* Lines 376-388: get_report_stats, one SELECT and the dictionary made of its rows.
get_report_stats(c) ==
    /\ PoolOpen
    /\ Begin(c, "get_report_stats", {})
    /\ End(c, "done", Some(StatsDict(GroupByStatus(reports))))
    /\ UNCHANGED << poolVars, clock, held, cooldownVars, bumpVars, reminderVars,
                    introVars, schemaVars, reportVars,
                    mainVars,
                    settingsVars,
                    rateVars >>

ReportNext ==
    \/ \E c \in Calls : create_report(c)
    \/ \E c \in Calls, id \in 1..MaxReports, st \in ReportStatuses :
           update_report_status(c, id, st)
    \/ \E c \in Calls : get_report_stats(c)

SpecReport == InitServing /\ [][ReportNext]_vars

RECURSIVE SumOver(_, _)
SumOver(f, S) ==
    IF S = {} THEN 0
    ELSE LET x == CHOOSE y \in S : TRUE IN f[x] + SumOver(f, S \ {x})

\* C13: get_report_stats returns a mapping whose keys are the statuses some report
\* carries, each with the number of reports that carry it, which is at least one, and
\* the numbers add up to the number of reports.
C13_StatsByStatus ==
    [][\A c \in Calls :
          get_report_stats(c)
          => /\ ret'[c] # None
             /\ DOMAIN ret'[c][1] = {r.status : r \in reports}
             /\ \A s \in DOMAIN ret'[c][1] :
                   /\ ret'[c][1][s] = Cardinality({r \in reports : r.status = s})
                   /\ ret'[c][1][s] >= 1
             /\ SumOver(ret'[c][1], DOMAIN ret'[c][1]) = Cardinality(reports)
      ]_vars

\* C13, its case: MaxReports reports, all but one of them with the default status and
\* one status that no report carries; get_report_stats has returned the two counts.
C13_Witness ==
    \E c \in Calls :
        /\ op[c] = "get_report_stats" /\ pc[c] = "done"
        /\ Cardinality(reports) = MaxReports
        /\ ret[c] = Some([s \in {"unhandled", "resolved"} |->
                             IF s = "unhandled" THEN MaxReports - 1 ELSE 1])

\* ------------------------------------------------------------ statements that fail
\* A planted fault: the error leaves the call with its connection still checked out.
statement_raises_leak(c) ==
    /\ InFlight(c) /\ c \in held
    /\ tx' = [tx EXCEPT ![c] = None]
    /\ bumpsDone' = IF op[c] = "record_bump"
                    THEN [bumpsDone EXCEPT ![arg[c].user_id] = @ + 1] ELSE bumpsDone
    /\ serial' = IF op[c] = "record_bump"
                 THEN [serial EXCEPT ![arg[c].user_id] = FALSE] ELSE serial
    /\ UNCHANGED returned
    /\ End(c, "raised", None)
    /\ UNCHANGED << poolVars, clock, op, solo, racing, held, window, report_cooldowns,
                    users, reminderVars, introVars, schemaVars, reportVars,
                    mainVars,
                    settingsVars,
                    rateVars >>

\* The statement call c is suspended at raises (a timeout after command_timeout, a
\* lost connection, an error of the server).  No operation catches it: it leaves the
\* transaction block, which rolls back, and the acquire block, which releases the
\* connection, and then the operation.  A record_bump that fails in its read-back has
\* made its increment and counts among the calls that have ended.
statement_raises(c) ==
    /\ InFlight(c) /\ c \in held
    /\ tx' = [tx EXCEPT ![c] = None]
    /\ bumpsDone' = IF op[c] = "record_bump"
                    THEN [bumpsDone EXCEPT ![arg[c].user_id] = @ + 1] ELSE bumpsDone
    /\ serial' = IF op[c] = "record_bump"
                 THEN [serial EXCEPT ![arg[c].user_id] = FALSE] ELSE serial
    /\ UNCHANGED returned
    /\ End(c, "raised", None)
    /\ Release(c)
    /\ UNCHANGED << poolVars, clock, op, solo, racing, window, report_cooldowns, users,
                    reminderVars, introVars, schemaVars, reportVars,
                    mainVars,
                    settingsVars,
                    rateVars >>

\* The first statement of operation o raises: the call has acquired a connection, and
\* the acquire block releases it as the error leaves.
first_statement_raises(c, o) ==
    /\ PoolOpen
    /\ Begin(c, o, {})
    /\ End(c, "raised", None)
    /\ UNCHANGED << poolVars, clock, held, cooldownVars, bumpVars, reminderVars,
                    introVars, schemaVars, reportVars,
                    mainVars,
                    settingsVars,
                    rateVars >>

\* check_cooldown and record_bump of one user, with statements that may fail.
ReleaseNext ==
    \/ \E c \in Calls, w \in Windows : check_cooldown_select(c, 1, w)
    \/ \E c \in Calls : check_cooldown_upsert(c)
    \/ \E c \in Calls : check_cooldown_commit(c)
    \/ \E c \in Calls : record_bump_upsert(c, 1)
    \/ \E c \in Calls : record_bump_fetchval(c)
    \/ \E c \in Calls : statement_raises(c)
    \/ \E c \in Calls, o \in {"check_cooldown", "record_bump"} : first_statement_raises(c, o)

\* The bot has started, and its callers pass one cooldown_seconds.
InitRelease == InitServing /\ window = 1

SpecRelease == InitRelease /\ [][ReleaseNext]_vars

\* C14: the calls that have a connection checked out are calls in flight: a call that
\* has ended, by a return or by an error, holds none, and with no call in flight no
\* connection is checked out.
C14_ReleasedOnExit ==
    /\ \A c \in Calls : Free(c) => c \notin held
    /\ (\A c \in Calls : Free(c)) => held = {}
    /\ Cardinality(held) = Cardinality({c \in Calls : InFlight(c)})

\* C14, its case: a record_bump has ended with an error raised by its read-back, a
\* check_cooldown has ended by the early return of a rejected attempt, and no
\* connection is checked out.
C14_Witness ==
    \E c \in Calls : \E d \in Calls \ {c} :
        /\ op[c] = "record_bump" /\ pc[c] = "raised"
        /\ \E u \in Users : UserRows(users, u) # {} /\ ~serial[u]
        /\ op[d] = "check_cooldown" /\ pc[d] = "done"
        /\ ret[d] # None /\ ret[d][1] > 0
        /\ held = {}

\* ------------------------------------------------------------ main.py: the handlers
\* The names module database defines.  main.py calls db.init_intro_bot_db, which is
\* one of them, and db.save_intro_link and db.load_intro_link, which are not: these
\* two calls raise AttributeError where they stand.
DbNames == RecordOps \cup {"get_pool", "close_pool"}

INTRODUCTION_CHANNEL_ID == 1
VoiceChannels == {1, 2, 3}
TARGET_VOICE_CHANNELS == {1, 2}

\* logging.error(...) of kind k
LogError(k) == errors' = [errors EXCEPT ![k] = @ + 1]

\* init_intro_bot_db has raised, in the call on_ready made.
StartupFailed == \E c \in Calls : op[c] = "init_intro_bot_db" /\ pc[c] = "raised"

\* Lines 46-50: on_ready logs, enters its try block and calls db.init_intro_bot_db().
on_ready_try ==
    /\ on_ready_pc = "none"
    /\ on_ready_pc' = "init_intro_bot_db"
    /\ UNCHANGED << poolVars, clock, callVars, cooldownVars, bumpVars, reminderVars,
                    introVars, schemaVars, reportVars, intro_channel, notify_channel,
                    history, events, sent, errors, db_attempts, joins, propagated,
                    late_event,
                    settingsVars,
                    rateVars >>

\* on_ready is suspended in `await db.init_intro_bot_db()` and the call has not begun.
OnReadyCalls == on_ready_pc = "init_intro_bot_db" /\ \A c \in Calls : op[c] = "none"

\* on_ready is suspended in the call and the call has begun.
OnReadyAwaits(c) == on_ready_pc = "init_intro_bot_db" /\ op[c] = "init_intro_bot_db"

\* Lines 50-67, from the end of the call on.  An error of the call is caught by the
\* except of line 66 and logged.  Otherwise on_ready looks the introduction channel up:
\* without it, it logs an error; with it, it scans the history, and the first message
\* whose author is no bot takes it to db.save_intro_link, an AttributeError, which the
\* same except catches and logs.  on_ready returns in every case.
on_ready_resume(c) ==
    /\ OnReadyAwaits(c) /\ Free(c)
    /\ IF pc[c] = "raised"
       THEN LogError("on_ready") /\ UNCHANGED db_attempts
       ELSE IF ~intro_channel
       THEN LogError("intro_channel_not_found") /\ UNCHANGED db_attempts
       ELSE IF \E i \in DOMAIN history : ~history[i]
       THEN /\ db_attempts' = db_attempts + 1
            /\ IF "save_intro_link" \in DbNames
               THEN UNCHANGED errors
               ELSE LogError("on_ready")
       ELSE UNCHANGED << errors, db_attempts >>
    /\ on_ready_pc' = "returned"
    /\ UNCHANGED << poolVars, clock, callVars, cooldownVars, bumpVars, reminderVars,
                    introVars, schemaVars, reportVars, intro_channel, notify_channel,
                    history, events, sent, joins, propagated, late_event,
                    settingsVars,
                    rateVars >>

\* A planted fault: on_message without its try block.
on_message_uncaught(bot, channel_id) ==
    /\ events < MaxEvents
    /\ events' = events + 1
    /\ late_event' = (late_event \/ StartupFailed)
    /\ IF channel_id = INTRODUCTION_CHANNEL_ID /\ ~bot
       THEN db_attempts' = db_attempts + 1 /\ propagated' = TRUE
       ELSE UNCHANGED << db_attempts, propagated >>
    /\ UNCHANGED << poolVars, clock, callVars, cooldownVars, bumpVars, reminderVars,
                    introVars, schemaVars, reportVars, intro_channel, notify_channel,
                    history, on_ready_pc, sent, errors, joins,
                    settingsVars,
                    rateVars >>

\* Lines 71-79: on_message for a message of channel channel_id whose author is a bot
\* or not.  In the introduction channel and for a human author it reaches
\* db.save_intro_link inside its try block: AttributeError, caught and logged.
on_message(bot, channel_id) ==
    /\ events < MaxEvents
    /\ events' = events + 1
    /\ late_event' = (late_event \/ StartupFailed)
    /\ IF channel_id = INTRODUCTION_CHANNEL_ID /\ ~bot
       THEN /\ db_attempts' = db_attempts + 1
            /\ IF "save_intro_link" \in DbNames
               THEN UNCHANGED errors
               ELSE LogError("on_message")
       ELSE UNCHANGED << errors, db_attempts >>
    /\ UNCHANGED << poolVars, clock, callVars, cooldownVars, bumpVars, reminderVars,
                    introVars, schemaVars, reportVars, intro_channel, notify_channel,
                    history, on_ready_pc, sent, joins, propagated,
                    settingsVars,
                    rateVars >>

\* Line 85: the member has moved, into a monitored voice channel.
Joined(before, after) ==
    before # after /\ after # None /\ after[1] \in TARGET_VOICE_CHANNELS

\* A planted fault: on_voice_state_update without the test of lines 89-91.
on_voice_state_update_unchecked(before, after) ==
    /\ events < MaxEvents
    /\ events' = events + 1
    /\ late_event' = (late_event \/ StartupFailed)
    /\ IF Joined(before, after)
       THEN /\ joins' = joins + 1
            /\ db_attempts' = db_attempts + 1
            /\ LogError("on_voice_state_update")
       ELSE UNCHANGED << errors, db_attempts, joins >>
    /\ UNCHANGED << poolVars, clock, callVars, cooldownVars, bumpVars, reminderVars,
                    introVars, schemaVars, reportVars, intro_channel, notify_channel,
                    history, on_ready_pc, sent, propagated,
                    settingsVars,
                    rateVars >>

\* Lines 83-112: on_voice_state_update for a member that was in channel before (or in
\* none) and is in channel after (or in none).  On an entry into a monitored channel:
\* without the notification channel it logs an error and returns; with it, it reaches
\* db.load_intro_link inside its try block: AttributeError, caught and logged, and the
\* send of line 108 is not reached.
on_voice_state_update(before, after) ==
    /\ events < MaxEvents
    /\ events' = events + 1
    /\ late_event' = (late_event \/ StartupFailed)
    /\ IF ~Joined(before, after)
       THEN UNCHANGED << errors, db_attempts, joins, sent >>
       ELSE IF ~notify_channel
       THEN LogError("notify_channel_not_found") /\ UNCHANGED << db_attempts, joins, sent >>
       ELSE /\ joins' = joins + 1
            /\ db_attempts' = db_attempts + 1
            /\ IF "load_intro_link" \in DbNames
               THEN sent' = Append(sent, "notification") /\ UNCHANGED errors
               ELSE LogError("on_voice_state_update") /\ UNCHANGED sent
    /\ UNCHANGED << poolVars, clock, callVars, cooldownVars, bumpVars, reminderVars,
                    introVars, schemaVars, reportVars, intro_channel, notify_channel,
                    history, on_ready_pc, propagated,
                    settingsVars,
                    rateVars >>

\* The histories of the introduction channel: none, a bot's message, a bot's and a
\* member's.
Histories == {<< >>, << TRUE >>, << TRUE, FALSE >>}

\* The process starts: the database is as StartupDatabase says, the guild has each of
\* the two channels or not, and no handler has run.
InitMain ==
    /\ StartupDatabase
    /\ \E ic \in BOOLEAN, nc \in BOOLEAN, h \in Histories : InitHandlers(ic, nc, h)

\* on_ready with its call of init_intro_bot_db, whose statements may fail, and the
\* events, which the client dispatches at any time.
MainNext ==
    \/ on_ready_try
    \/ \E c \in Calls : OnReadyCalls /\ init_intro_bot_db_get_pool(c)
    \/ \E c \in Calls : init_intro_bot_db_acquire(c)
    \/ \E c \in Calls : init_intro_bot_db_create_table(c)
    \/ \E c \in Calls : init_intro_bot_db_fetchval(c)
    \/ \E c \in Calls : init_intro_bot_db_alter(c)
    \/ \E c \in Calls : init_intro_bot_db_create_index(c)
    \/ \E c \in Calls : statement_raises(c)
    \/ \E c \in Calls : on_ready_resume(c)
    \/ \E bot \in BOOLEAN, ch \in Channels : on_message(bot, ch)
    \/ \E before \in {None} \cup {Some(v) : v \in VoiceChannels},
          after \in {None} \cup {Some(v) : v \in VoiceChannels} :
           on_voice_state_update(before, after)

SpecMain == InitMain /\ [][MainNext]_vars

\* C15: when a statement of init_intro_bot_db has failed at startup, on_ready does not
\* return normally, and no message or voice-state event is handled afterwards.
C15_InitFailureAborts ==
    StartupFailed => (on_ready_pc # "returned" /\ ~late_event)

RECURSIVE SumErrors(_, _)
SumErrors(f, S) ==
    IF S = {} THEN 0
    ELSE LET k == CHOOSE x \in S : TRUE IN f[k] + SumErrors(f, S \ {k})

\* C16: no exception leaves on_message or on_voice_state_update; an event makes at most
\* one persistence call, and when that call fails the handler logs one error and makes
\* no second call; whatever has failed before, the next event is handled the same way.
C16_HandlersCatch ==
    [][/\ ~propagated'
       /\ (events' = events + 1)
          => /\ db_attempts' \in {db_attempts, db_attempts + 1}
             /\ (db_attempts' = db_attempts + 1 /\ sent' = sent)
                => SumErrors(errors', ErrorKinds) = SumErrors(errors, ErrorKinds) + 1
             /\ \A bot \in BOOLEAN, ch \in Channels :
                   (on_message(bot, ch) /\ ch = INTRODUCTION_CHANNEL_ID /\ ~bot)
                   => db_attempts' = db_attempts + 1
             /\ \A v \in TARGET_VOICE_CHANNELS :
                   (on_voice_state_update(None, Some(v)) /\ notify_channel)
                   => db_attempts' = db_attempts + 1
      ]_vars

\* C16, its case: the persistence calls of an on_message and of an
\* on_voice_state_update have failed and were logged, a later event was handled, and
\* no exception has left a handler.
C16_Witness ==
    /\ events = MaxEvents
    /\ errors["on_message"] >= 1 /\ errors["on_voice_state_update"] >= 1
    /\ db_attempts = MaxEvents
    /\ ~propagated

\* C17: every entry into a monitored voice channel that on_voice_state_update has
\* handled with the notification channel present has sent one message to that channel.
C17_JoinNotifiesOnce ==
    Len(sent) = joins

\* C18: without the notification channel, on_voice_state_update sends nothing, makes
\* no persistence call, raises nothing, and logs the missing channel when a member
\* entered a monitored channel; without the introduction channel, on_ready, once its
\* initializer has returned, makes no persistence call, changes no row and returns;
\* events are handled whatever was logged before.
C18_MissingChannelsSkip ==
    [][/\ \A before \in {None} \cup {Some(v) : v \in VoiceChannels},
             after \in {None} \cup {Some(v) : v \in VoiceChannels} :
             (on_voice_state_update(before, after) /\ ~notify_channel)
             => /\ sent' = sent
                /\ db_attempts' = db_attempts
                /\ ~propagated'
                /\ events' = events + 1
                /\ errors'["notify_channel_not_found"]
                     = errors["notify_channel_not_found"]
                       + (IF Joined(before, after) THEN 1 ELSE 0)
       /\ \A c \in Calls :
             (on_ready_resume(c) /\ pc[c] = "done" /\ ~intro_channel)
             => /\ db_attempts' = db_attempts
                /\ introductions' = introductions
                /\ on_ready_pc' = "returned"
                /\ errors'["intro_channel_not_found"] = 1
                /\ errors'["on_ready"] = 0
      ]_vars

\* C18, its case: on_ready has returned after logging that the introduction channel is
\* missing, two entries into a monitored channel were skipped for want of the
\* notification channel, the second after the first, and nothing was sent or called.
C18_Witness ==
    /\ ~intro_channel /\ ~notify_channel
    /\ on_ready_pc = "returned"
    /\ errors["intro_channel_not_found"] = 1
    /\ errors["notify_channel_not_found"] >= 2
    /\ sent = << >> /\ db_attempts = 0 /\ ~propagated

\* ------------------------------------------------------------ settings
\* The tables init_db makes, lines 49-68.
InitDbTables == {"users", "reminders", "settings"}

SettingRows(T, k) == {r \in T : r.key = k}

\* A planted fault: ON CONFLICT (key) DO UPDATE SET value = 'false'.
SeedSetting_doUpdate(T) ==
    (T \ SettingRows(T, "scan_completed"))
        \cup {[key |-> "scan_completed", value |-> "false"]}

\* INSERT INTO settings (key, value) VALUES ('scan_completed', 'false')
\* ON CONFLICT (key) DO NOTHING, lines 69-72.
SeedSetting(T) ==
    IF SettingRows(T, "scan_completed") # {} THEN T
    ELSE T \cup {[key |-> "scan_completed", value |-> "false"]}

\* UPDATE settings SET value = 'true' WHERE key = 'scan_completed', line 84.
SetScanCompleted(T) ==
    {IF r.key = "scan_completed" THEN [r EXCEPT !.value = "true"] ELSE r : r \in T}

\* `return record and record['value'] == 'true'`, line 79: None when there is no row.
ScanCompleted(T) ==
    LET record == FetchRow(SettingRows(T, "scan_completed"))
    IN IF record = None THEN None ELSE Some(record[1].value = "true")

InitDbsInFlight == {c \in Calls : op[c] = "init_db" /\ InFlight(c)}

\* Lines 47-55: get_pool(), pool.acquire() and CREATE TABLE IF NOT EXISTS users.
init_db_begin(c) ==
    /\ PoolOpen
    /\ inits + Cardinality(InitDbsInFlight) < MaxInits
    /\ Begin(c, "init_db", {})
    /\ Acquire(c)
    /\ tables' = tables \cup {"users"}
    /\ Suspend(c, "create_reminders", None, None)
    /\ ret' = [ret EXCEPT ![c] = None]
    /\ UNCHANGED << poolVars, clock, cooldownVars, bumpVars, reminderVars, introVars,
                    introductions_columns, introductions_indexes, reportVars, mainVars,
                    settingsVars,
                    rateVars >>

\* Lines 56-63: CREATE TABLE IF NOT EXISTS reminders.
init_db_create_reminders(c) ==
    /\ At(c, "init_db", "create_reminders")
    /\ tables' = tables \cup {"reminders"}
    /\ pc' = [pc EXCEPT ![c] = "create_settings"]
    /\ UNCHANGED << poolVars, clock, op, arg, loc, ret, solo, racing, held, cooldownVars,
                    bumpVars, reminderVars, introVars, introductions_columns,
                    introductions_indexes, reportVars, mainVars, settingsVars,
                    rateVars >>

\* Lines 64-68: CREATE TABLE IF NOT EXISTS settings.
init_db_create_settings(c) ==
    /\ At(c, "init_db", "create_settings")
    /\ tables' = tables \cup {"settings"}
    /\ pc' = [pc EXCEPT ![c] = "insert"]
    /\ UNCHANGED << poolVars, clock, op, arg, loc, ret, solo, racing, held, cooldownVars,
                    bumpVars, reminderVars, introVars, introductions_columns,
                    introductions_indexes, reportVars, mainVars, settingsVars,
                    rateVars >>

\* Lines 69-73: the seed row, the release of the connection and the return.
init_db_insert(c) ==
    /\ At(c, "init_db", "insert")
    /\ settings' = SeedSetting(settings)
    /\ inits' = inits + 1
    /\ End(c, "done", None)
    /\ Release(c)
    /\ UNCHANGED << poolVars, clock, op, solo, racing, cooldownVars, bumpVars,
                    reminderVars, introVars, schemaVars, reportVars, mainVars, marked,
                    scan_results,
                    rateVars >>

\* Lines 75-79: is_scan_completed, one SELECT.  Without the table the statement
\* fails (UndefinedTableError) and the error leaves the call.
is_scan_completed(c) ==
    /\ PoolOpen
    /\ Begin(c, "is_scan_completed", {})
    /\ IF "settings" \in tables
       THEN /\ End(c, "done", ScanCompleted(settings))
            /\ scan_results' = scan_results \cup
                   {[inits |-> inits, marked |-> marked,
                     result |-> ScanCompleted(settings)]}
       ELSE /\ End(c, "raised", None)
            /\ UNCHANGED scan_results
    /\ UNCHANGED << poolVars, clock, held, cooldownVars, bumpVars, reminderVars,
                    introVars, schemaVars, reportVars, mainVars, settings, inits,
                    marked,
                    rateVars >>

\* Lines 81-84: mark_scan_as_completed, one UPDATE, which changes no row when the
\* seed row is not there.  marked keeps the number of init_db calls that had returned
\* when the latest mark_scan_as_completed returned.
mark_scan_as_completed(c) ==
    /\ PoolOpen
    /\ Begin(c, "mark_scan_as_completed", {})
    /\ IF "settings" \in tables
       THEN /\ End(c, "done", None)
            /\ settings' = SetScanCompleted(settings)
            /\ marked' = Some(inits)
       ELSE /\ End(c, "raised", None)
            /\ UNCHANGED << settings, marked >>
    /\ UNCHANGED << poolVars, clock, held, cooldownVars, bumpVars, reminderVars,
                    introVars, schemaVars, reportVars, mainVars, inits, scan_results,
                    rateVars >>

\* The bot serves a database on which init_db has never run.
InitFresh ==
    /\ DATABASE_URL = TRUE
    /\ _pool = Some(1)
    /\ pools = << "open" >>
    /\ InitCalls /\ window = 1
    /\ report_cooldowns = {}
    /\ users = {}
    /\ bumpsDone = [u \in Users |-> 0]
    /\ serial = [u \in Users |-> TRUE]
    /\ returned = [u \in Users |-> {}]
    /\ reminders = {}
    /\ reminders_id_seq = 0
    /\ introductions = {}
    /\ reports = {}
    /\ reports_id_seq = 0
    /\ settings = {}
    /\ inits = 0
    /\ marked = None
    /\ scan_results = {}
    /\ tables = AllTables \ InitDbTables
    /\ introductions_columns = CurrentColumns
    /\ introductions_indexes = << "introductions_pkey", "idx_introductions_user_id" >>
    /\ InitHandlers(TRUE, TRUE, << >>)

SettingsNext ==
    \/ \E c \in Calls : init_db_begin(c)
    \/ \E c \in Calls : init_db_create_reminders(c)
    \/ \E c \in Calls : init_db_create_settings(c)
    \/ \E c \in Calls : init_db_insert(c)
    \/ \E c \in Calls : is_scan_completed(c)
    \/ \E c \in Calls : mark_scan_as_completed(c)

SpecSettings == InitFresh /\ [][SettingsNext]_vars

\* C19: once an init_db has returned, table settings holds exactly one row with key
\* 'scan_completed'; and every is_scan_completed that runs after a
\* mark_scan_as_completed that returned on the initialized database has returned
\* True, whatever number of init_db calls ran in between.
C19_ScanCompletedSticks ==
    /\ inits >= 1 => Cardinality(SettingRows(settings, "scan_completed")) = 1
    /\ \A s \in scan_results :
           (s.marked # None /\ s.marked[1] >= 1) => s.result = Some(TRUE)

\* C19, its case: mark_scan_as_completed returned after the first init_db, a second
\* init_db ran to its end after that, and then is_scan_completed returned True.
C19_Witness ==
    \E s \in scan_results :
        /\ s.marked # None /\ s.marked[1] >= 1
        /\ s.inits > s.marked[1]
        /\ s.result = Some(TRUE)
        /\ settings = {[key |-> "scan_completed", value |-> "true"]}

\* ------------------------------------------------------------ record_bump: its result
\* C20: when no record_bump(u) call is in flight, the calls that have returned have
\* returned as many distinct counts as there are calls, the counts 1, 2, ... up to
\* their number: no two calls return the same count, however their statements
\* interleaved.
C20_ReturnsOwnCount ==
    \A u \in Users :
        BumpsInFlight(u) = {} => returned[u] = {Some(k) : k \in 1..bumpsDone[u]}

\* ------------------------------------------------------------ the startup backfill
\* C21: once on_ready has scanned the history of the introduction channel (the
\* initializer has not failed, the channel exists, on_ready has returned) and the
\* history holds a member's post, table introductions holds a stored introduction:
\* the member's latest post can only be the stored one if one is stored.
C21_BackfillStoresLatest ==
    ( /\ on_ready_pc = "returned" /\ ~StartupFailed
      /\ intro_channel
      /\ \E i \in DOMAIN history : ~history[i] )
    => introductions # {}

\* ------------------------------------------------------------ get_reminder and status
\* C22: a get_reminder on a table with rows returns a row of the smallest remind_at
\* with the status that row has, whatever it is, and returns None exactly when the
\* table is empty; update_reminder_status(ch, s) writes s, whatever the status was,
\* to the rows of channel ch and leaves every row in the table; clear_reminder leaves
\* the table empty.
C22_GetIgnoresStatus ==
    [][\A c \in Calls :
          /\ get_reminder(c)
             => /\ (ret'[c] = None) <=> (reminders = {})
                /\ reminders # {}
                   => \E r \in reminders :
                         /\ \A x \in reminders : r.remind_at <= x.remind_at
                         /\ ret'[c] = Some([channel_id |-> r.channel_id,
                                            remind_at |-> r.remind_at,
                                            status |-> r.status])
          /\ \A ch \in Channels, s \in Statuses :
                update_reminder_status(c, ch, s)
                => /\ {r.id : r \in reminders'} = {r.id : r \in reminders}
                   /\ \A r \in reminders : \E x \in reminders' :
                         /\ x.id = r.id /\ x.channel_id = r.channel_id
                         /\ x.remind_at = r.remind_at
                         /\ x.status = IF r.channel_id = ch THEN s ELSE r.status
          /\ clear_reminder(c) => reminders' = {}
      ]_vars

\* C22, its case: the only reminder has had its status updated to 'sent', and a
\* get_reminder that followed has returned it with that status.
C22_Witness ==
    \E c \in Calls :
        /\ op[c] = "get_reminder" /\ pc[c] = "done"
        /\ \E r \in reminders :
              /\ reminders = {r} /\ r.status = "sent"
              /\ ret[c] = Some([channel_id |-> r.channel_id, remind_at |-> r.remind_at,
                                status |-> "sent"])

\* ------------------------------------------------------------ reports: ids
\* C23: no two reports share an id; create_report returns an id no report has and
\* adds one report with it; no step removes a report or changes its id;
\* update_report_status(id, s) gives status s, whatever the status was, to the report
\* with that id, leaves every other report as it was, and leaves the table as it was
\* when no report has that id.
C23_ReportIdsStable ==
    [][/\ Cardinality({r.report_id : r \in reports'}) = Cardinality(reports')
       /\ {r.report_id : r \in reports} \subseteq {r.report_id : r \in reports'}
       /\ \A c \in Calls :
             /\ create_report(c)
                => /\ ret'[c] # None
                   /\ ret'[c][1] \notin {r.report_id : r \in reports}
                   /\ \E r \in reports' :
                         r.report_id = ret'[c][1] /\ reports' = reports \cup {r}
             /\ \A id \in 1..MaxReports, s \in ReportStatuses :
                   update_report_status(c, id, s)
                   => /\ \A r \in reports :
                            IF r.report_id = id
                            THEN [report_id |-> id, status |-> s] \in reports'
                            ELSE r \in reports'
                      /\ Cardinality(reports') = Cardinality(reports)
                      /\ (\A r \in reports : r.report_id # id) => reports' = reports
      ]_vars

\* C23, its case: MaxReports reports have been made, with the ids 1 to MaxReports, and
\* update_report_status calls have left them with the three statuses.
C23_Witness ==
    \E c \in Calls :
        /\ op[c] = "update_report_status" /\ pc[c] = "done"
        /\ {r.report_id : r \in reports} = 1..MaxReports
        /\ reports_id_seq = MaxReports
        /\ {r.status : r \in reports} = ReportStatuses

\* ------------------------------------------------------------ get_total_bumps
RECURSIVE TotalBumpCount(_)
TotalBumpCount(T) ==
    IF T = {} THEN 0
    ELSE LET r == CHOOSE x \in T : TRUE IN r.bump_count + TotalBumpCount(T \ {r})

\* A planted fault: SELECT COUNT(*) FROM users.
SumBumpCount_countRows(T) == Some(Cardinality(T))

\* SELECT SUM(bump_count) FROM users, through connection.fetchval, line 139: NULL,
\* which is None, on a table without rows.
SumBumpCount(T) == IF T = {} THEN None ELSE Some(TotalBumpCount(T))

\* Lines 136-140: get_total_bumps, one SELECT, and `return total or 0`.
get_total_bumps(c) ==
    /\ PoolOpen
    /\ Begin(c, "get_total_bumps", {})
    /\ End(c, "done", Some(OrZero(SumBumpCount(users))))
    /\ UNCHANGED << poolVars, clock, held, cooldownVars, bumpVars, reminderVars,
                    introVars, schemaVars, reportVars, mainVars, settingsVars,
                    rateVars >>

TotalNext ==
    \/ \E c \in Calls, u \in Users : record_bump_upsert(c, u)
    \/ \E c \in Calls : record_bump_fetchval(c)
    \/ \E c \in Calls : get_total_bumps(c)

SpecTotal == InitServing /\ [][TotalNext]_vars

\* The record_bump(u) calls that have run their upsert: those that have returned and
\* those that are at their read-back.
Increments(u) == bumpsDone[u] + Cardinality(BumpsInFlight(u))

\* C24: after every step users holds at most one row per user and every bump_count is
\* at least 1; no step removes a row or lowers a bump_count; and get_total_bumps
\* returns the sum of the counts, which is the number of upserts that record_bump
\* calls have run.
C24_CountsOnlyGrow ==
    [][/\ \A u \in Users : Cardinality(UserRows(users', u)) <= 1
       /\ \A r \in users' : r.bump_count >= 1
       /\ \A r \in users : \E x \in users' :
             x.user_id = r.user_id /\ x.bump_count >= r.bump_count
       /\ \A c \in Calls :
             get_total_bumps(c)
             => /\ ret'[c] = Some(SumOver([u \in Users |-> Increments(u)], Users))
                /\ ret'[c] = Some(SumOver([u \in Users |->
                                  SumOver([r \in UserRows(users, u) |-> r.bump_count],
                                          UserRows(users, u))], Users))
      ]_vars

\* C24, its case: one user has been bumped MaxBumps times, the other once, and a
\* get_total_bumps that ran while a record_bump was at its read-back has returned
\* MaxBumps + 1.
C24_Witness ==
    \E c \in Calls : \E d \in Calls \ {c} :
        /\ op[c] = "get_total_bumps" /\ pc[c] = "done" /\ ret[c] = Some(MaxBumps + 1)
        /\ At(d, "record_bump", "fetchval")
        /\ \E r \in users : r.bump_count = MaxBumps
        /\ \E r \in users : r.bump_count = 1

\* ------------------------------------------------------------ check_cooldown: a run
\* check_cooldown calls that come one after another, each begun when the one before
\* has ended, while the clock runs.
RateNext ==
    \/ \E c \in Calls, u \in Users, w \in Windows :
           (\A d \in Calls : Free(d)) /\ check_cooldown_select(c, u, w)
    \/ \E c \in Calls : check_cooldown_upsert(c)
    \/ \E c \in Calls : check_cooldown_commit(c)
    \/ Tick

SpecRate == InitServing /\ [][RateNext]_vars

\* C25: in a run of check_cooldown calls that do not overlap, all with the window w,
\* a call for u goes on to return 0 exactly when no call for u has returned 0 before
\* or the latest that did took its time w seconds or more before this call takes its
\* own; so a call that returns 0 has taken its time at least w seconds after the
\* latest call for u that returned 0, and a call made w seconds or more after that
\* one returns 0, however many calls were rejected in between.
C25_PassesAreWindowApart ==
    [][\A c \in Calls :
          /\ ( Free(c) /\ op'[c] = "check_cooldown" /\ pc'[c] \in {"upsert", "commit"} )
             => LET u == arg'[c].user_id
                    w == arg'[c].cooldown_seconds
                    due == \/ last_pass[u] = None
                           \/ clock - last_pass[u][1] >= w
                IN /\ w = window
                   /\ (pc'[c] = "upsert") <=> due
                   /\ (ret'[c] # None /\ ret'[c][1] > 0) <=> ~due
          /\ ( At(c, "check_cooldown", "upsert") /\ pc'[c] = "commit" )
             => ret'[c] = Some(0)
          /\ ( At(c, "check_cooldown", "commit") /\ pc'[c] = "done" )
             => /\ ret'[c] = ret[c]
                /\ ret[c] = Some(0)
                   => \/ last_pass[arg[c].user_id] = None
                      \/ loc[c].now - last_pass[arg[c].user_id][1]
                            >= arg[c].cooldown_seconds
      ]_vars

\* C25, its case: a call for a user is about to return 0, having taken its time
\* exactly one window after the latest call for that user that returned 0, and the
\* other user has passed in between.
C25_Witness ==
    \E c \in Calls :
        /\ At(c, "check_cooldown", "commit") /\ ret[c] = Some(0)
        /\ last_pass[arg[c].user_id] # None
        /\ loc[c].now - last_pass[arg[c].user_id][1] = window
        /\ \E v \in Users \ {arg[c].user_id} :
              last_pass[v] # None /\ last_pass[v][1] > last_pass[arg[c].user_id][1]

\* ------------------------------------------------------------ pools: none orphaned
\* C26: every pool that has been created and is not closed is the pool the global
\* _pool holds.
C26_NoOrphanPool ==
    \A p \in DOMAIN pools : pools[p] # "closed" => _pool = Some(p)

====
